---- MODULE Spec2Model ----
(***************************************************************************)
(* Model of src/src/App.js: the image-link browser.                        *)
(*                                                                         *)
(* Strings are TLA+ strings; characters are strings of length one.        *)
(* The platform's URL parser (new URL(...)) is modelled for the fragment   *)
(* of URL syntax over the alphabet of letters, digits and the characters   *)
(* " . : / ? # = - +": no credentials ("@"), no backslashes, no IPv6 or    *)
(* numeric hosts, no "file:" scheme, no percent-escapes in the input.      *)
(***************************************************************************)
EXTENDS Integers, Sequences, FiniteSets, TLC

(***************************************************************************)
(* String helpers (String.prototype functions used by the code).           *)
(* Recursions are functions, so that each step works on a computed value.  *)
(***************************************************************************)
Ch(s, i) == SubSeq(s, i, i)

Take(s, n) == SubSeq(s, 1, n)

Drop(s, n) == SubSeq(s, n + 1, Len(s))

\* index of the first character of s, from position i on, that is in chars; 0 when
\* there is none
IndexFrom[s \in STRING, chars \in SUBSET STRING, i \in Nat] ==
  IF i > Len(s) THEN 0
  ELSE IF Ch(s, i) \in chars THEN i
  ELSE IndexFrom[s, chars, i + 1]

IndexOfAny(s, chars) == IndexFrom[s, chars, 1]

StartsWith[s \in STRING, p \in STRING] == Len(s) >= Len(p) /\ Take(s, Len(p)) = p

EndsWith[s \in STRING, p \in STRING] ==
  Len(s) >= Len(p) /\ SubSeq(s, Len(s) - Len(p) + 1, Len(s)) = p

\* String.prototype.startsWith
startsWith(s, p) == StartsWith[s, p]

\* String.prototype.endsWith
endsWith(s, p) == EndsWith[s, p]

UpperAlpha == "ABCDEFGHIJKLMNOPQRSTUVWXYZ"

LowerAlpha == "abcdefghijklmnopqrstuvwxyz"

DigitChars == "0123456789"

CharsOf(s) == {Ch(s, i) : i \in 1..Len(s)}

Alpha == CharsOf(UpperAlpha) \cup CharsOf(LowerAlpha)

Digits == CharsOf(DigitChars)

WhiteSpace == {" ", "\t", "\n"}

LowerCh[c \in STRING] ==
  IF IndexOfAny(UpperAlpha, {c}) = 0 THEN c
  ELSE Ch(LowerAlpha, IndexOfAny(UpperAlpha, {c}))

LowerCase[s \in STRING] ==
  IF s = "" THEN "" ELSE LowerCh[Ch(s, 1)] \o LowerCase[Drop(s, 1)]

\* String.prototype.toLowerCase
toLowerCase(s) == LowerCase[s]

trimStart[s \in STRING] ==
  IF s # "" /\ Ch(s, 1) \in WhiteSpace THEN trimStart[Drop(s, 1)] ELSE s

trimEnd[s \in STRING] ==
  IF s # "" /\ Ch(s, Len(s)) \in WhiteSpace THEN trimEnd[Take(s, Len(s) - 1)] ELSE s

\* String.prototype.trim: leading and trailing white space removed
trim(s) == trimEnd[trimStart[s]]

(***************************************************************************)
(* The URL parser behind new URL(input) and new URL(input, base)           *)
(***************************************************************************)
SpecialSchemes == {"http", "https", "ftp", "ws", "wss"}

SchemeChars == Alpha \cup Digits \cup {"+", "-", "."}

ForbiddenHostChars == {" ", "#", "/", ":", "<", ">", "?", "@", "[", "\\", "]", "^", "|", "%"}

\* a parsed URL; ok is FALSE for the failure the constructor throws on
URLRecord ==
  [ok : BOOLEAN, scheme : STRING, hasHost : BOOLEAN, host : STRING, port : STRING,
   opaque : BOOLEAN, opaquePath : STRING, segs : Seq(STRING),
   hasQuery : BOOLEAN, query : STRING, hasFragment : BOOLEAN, fragment : STRING]

Failure ==
  [ok |-> FALSE, scheme |-> "", hasHost |-> FALSE, host |-> "", port |-> "",
   opaque |-> FALSE, opaquePath |-> "", segs |-> <<>>,
   hasQuery |-> FALSE, query |-> "", hasFragment |-> FALSE, fragment |-> ""]

\* new URL(input) is new URL(input, undefined)
NoBase == Failure

\* a URL reference after its scheme: path part, query and fragment
RefRecord ==
  [main : STRING, hasQuery : BOOLEAN, query : STRING, hasFragment : BOOLEAN,
   fragment : STRING]

\* tabs and newlines are removed from the whole input
RemoveTabNewline[s \in STRING] ==
  IF s = "" THEN ""
  ELSE (IF Ch(s, 1) \in {"\t", "\n"} THEN "" ELSE Ch(s, 1)) \o RemoveTabNewline[Drop(s, 1)]

\* position of the ":" that ends a scheme at the start of s, 0 when s has no scheme
SchemeEnd[s \in STRING] ==
  LET c == IndexOfAny(s, {":"})
  IN  IF c > 1 /\ Ch(s, 1) \in Alpha /\ \A i \in 2..(c - 1) : Ch(s, i) \in SchemeChars
      THEN c ELSE 0

\* s split at its first "#" and, before it, its first "?"
SplitRef[s \in STRING] ==
  LET h == IndexOfAny(s, {"#"})
      noFrag == IF h = 0 THEN s ELSE Take(s, h - 1)
      q == IndexOfAny(noFrag, {"?"})
  IN  [main |-> IF q = 0 THEN noFrag ELSE Take(noFrag, q - 1),
       hasQuery |-> q # 0,
       query |-> IF q = 0 THEN "" ELSE Drop(noFrag, q),
       hasFragment |-> h # 0,
       fragment |-> IF h = 0 THEN "" ELSE Drop(s, h)]

Shorten(segs) == IF segs = <<>> THEN segs ELSE SubSeq(segs, 1, Len(segs) - 1)

\* a path segment with its spaces percent-encoded
PathEncode[s \in STRING] ==
  IF s = "" THEN ""
  ELSE (IF Ch(s, 1) = " " THEN "%20" ELSE Ch(s, 1)) \o PathEncode[Drop(s, 1)]

\* the path state: s is read segment by segment onto segs, "." and ".." resolved
PathState[s \in STRING, segs \in Seq(STRING)] ==
  LET k == IndexOfAny(s, {"/"})
      isLast == k = 0
      seg == IF isLast THEN s ELSE Take(s, k - 1)
      segs2 == IF seg = ".."
                 THEN (IF isLast THEN Append(Shorten(segs), "") ELSE Shorten(segs))
               ELSE IF seg = "."
                 THEN (IF isLast THEN Append(segs, "") ELSE segs)
               ELSE Append(segs, PathEncode[seg])
  IN  IF isLast THEN segs2 ELSE PathState[Drop(s, k), segs2]

SkipSlashes[s \in STRING] == IF startsWith(s, "/") THEN SkipSlashes[Drop(s, 1)] ELSE s

DefaultPort(scheme) ==
  IF scheme \in {"http", "ws"} THEN "80"
  ELSE IF scheme \in {"https", "wss"} THEN "443"
  ELSE IF scheme = "ftp" THEN "21" ELSE ""

\* the host state: the URL of scheme, the host and port read and the path that follows
HostState[scheme \in STRING, rawHost \in STRING, rawPort \in STRING, rest \in STRING, ref \in RefRecord] ==
  IF scheme \in SpecialSchemes /\ rawHost = "" THEN Failure
  ELSE IF \E i \in 1..Len(rawHost) : Ch(rawHost, i) \in ForbiddenHostChars THEN Failure
  ELSE IF \E i \in 1..Len(rawPort) : Ch(rawPort, i) \notin Digits THEN Failure
  ELSE [ok |-> TRUE, scheme |-> scheme, hasHost |-> TRUE,
        host |-> IF scheme \in SpecialSchemes THEN toLowerCase(rawHost) ELSE rawHost,
        port |-> IF rawPort = DefaultPort(scheme) THEN "" ELSE rawPort,
        opaque |-> FALSE, opaquePath |-> "",
        segs |-> IF rest = "" /\ scheme \notin SpecialSchemes THEN <<>>
                 ELSE PathState[IF rest = "" THEN "" ELSE Drop(rest, 1), <<>>],
        hasQuery |-> ref.hasQuery, query |-> ref.query,
        hasFragment |-> ref.hasFragment, fragment |-> ref.fragment]

\* the authority, split at its ":" into host and port
SplitAuthority[scheme \in STRING, auth \in STRING, rest \in STRING, ref \in RefRecord] ==
  LET c == IndexOfAny(auth, {":"})
  IN  HostState[scheme, IF c = 0 THEN auth ELSE Take(auth, c - 1),
                IF c = 0 THEN "" ELSE Drop(auth, c), rest, ref]

\* the authority state: s is what follows the "//" of scheme
AuthorityState[scheme \in STRING, s \in STRING, ref \in RefRecord] ==
  LET k == IndexOfAny(s, {"/"})
  IN  SplitAuthority[scheme, IF k = 0 THEN s ELSE Take(s, k - 1),
                     IF k = 0 THEN "" ELSE Drop(s, k - 1), ref]

\* the relative state: ref has no scheme of its own and is resolved against base
RelativeState[base \in URLRecord, ref \in RefRecord] ==
  IF startsWith(ref.main, "//") THEN AuthorityState[base.scheme, Drop(ref.main, 2), ref]
  ELSE IF startsWith(ref.main, "/")
    THEN [base EXCEPT !.segs = PathState[Drop(ref.main, 1), <<>>],
                      !.hasQuery = ref.hasQuery, !.query = ref.query,
                      !.hasFragment = ref.hasFragment, !.fragment = ref.fragment]
  ELSE IF ref.main = ""
    THEN [base EXCEPT !.hasQuery = IF ref.hasQuery THEN TRUE ELSE base.hasQuery,
                      !.query = IF ref.hasQuery THEN ref.query ELSE base.query,
                      !.hasFragment = ref.hasFragment, !.fragment = ref.fragment]
  ELSE [base EXCEPT !.segs = PathState[ref.main, Shorten(base.segs)],
                    !.hasQuery = ref.hasQuery, !.query = ref.query,
                    !.hasFragment = ref.hasFragment, !.fragment = ref.fragment]

\* the no scheme state: s has no scheme
NoSchemeState[s \in STRING, base \in URLRecord] ==
  IF ~base.ok THEN Failure
  ELSE IF base.opaque
    THEN (IF startsWith(s, "#")
            THEN [base EXCEPT !.hasFragment = TRUE, !.fragment = Drop(s, 1)]
            ELSE Failure)
  ELSE RelativeState[base, SplitRef[s]]

\* the states that follow a scheme and its ":"
AfterScheme[scheme \in STRING, ref \in RefRecord, base \in URLRecord] ==
  IF scheme \in SpecialSchemes
    THEN IF base.ok /\ base.scheme = scheme /\ ~startsWith(ref.main, "//")
           THEN RelativeState[base, ref]                      \* special relative or authority
           ELSE AuthorityState[scheme, SkipSlashes[ref.main], ref]   \* special authority slashes
  ELSE IF startsWith(ref.main, "//")
    THEN AuthorityState[scheme, Drop(ref.main, 2), ref]
  ELSE IF startsWith(ref.main, "/")
    THEN [ok |-> TRUE, scheme |-> scheme, hasHost |-> FALSE, host |-> "", port |-> "",
          opaque |-> FALSE, opaquePath |-> "",
          segs |-> PathState[Drop(ref.main, 1), <<>>],
          hasQuery |-> ref.hasQuery, query |-> ref.query,
          hasFragment |-> ref.hasFragment, fragment |-> ref.fragment]
  ELSE [ok |-> TRUE, scheme |-> scheme, hasHost |-> FALSE, host |-> "", port |-> "",
        opaque |-> TRUE, opaquePath |-> ref.main, segs |-> <<>>,
        hasQuery |-> ref.hasQuery, query |-> ref.query,
        hasFragment |-> ref.hasFragment, fragment |-> ref.fragment]

\* the scheme start state, on the input stripped of leading and trailing spaces
SchemeStartState[s \in STRING, base \in URLRecord] ==
  IF SchemeEnd[s] = 0 THEN NoSchemeState[s, base]
  ELSE AfterScheme[toLowerCase(Take(s, SchemeEnd[s] - 1)), SplitRef[Drop(s, SchemeEnd[s])], base]

\* new URL(input, base): a URL record; its ok is FALSE where the constructor throws
ParseURL(input, base) == SchemeStartState[RemoveTabNewline[trim(input)], base]

JoinSegments[segs \in Seq(STRING)] ==
  IF segs = <<>> THEN "" ELSE "/" \o Head(segs) \o JoinSegments[Tail(segs)]

Pathname[u \in URLRecord] == IF u.opaque THEN u.opaquePath ELSE JoinSegments[u.segs]

\* URL.prototype.pathname
pathname(u) == Pathname[u]

Serialize[u \in URLRecord] ==
  u.scheme \o ":"
    \o (IF u.hasHost
          THEN "//" \o u.host \o (IF u.port = "" THEN "" ELSE ":" \o u.port)
          ELSE "")
    \o Pathname[u]
    \o (IF u.hasQuery THEN "?" \o u.query ELSE "")
    \o (IF u.hasFragment THEN "#" \o u.fragment ELSE "")

\* URL.prototype.toString: the URL serializer
toString(u) == Serialize[u]

(***************************************************************************)
(* ensureAbsoluteUrl and extractImageLinks                                 *)
(***************************************************************************)
IMAGE_SUFFIXES == <<"png", "jpg", "jpeg">>

Null == [ok |-> FALSE, val |-> ""]

Str(s) == [ok |-> TRUE, val |-> s]

\* the value is null or the empty string (JavaScript's !value for string-or-null)
Falsy(v) == ~v.ok \/ v.val = ""

\* the result of a constructor call as the string, or Null where it throws
StringOrNull[u \in URLRecord] == IF u.ok THEN Str(toString(u)) ELSE Null

\* the try block and the nested try block
Fallback[direct \in URLRecord, rawUrl \in STRING] ==
  IF direct.ok THEN Str(toString(direct))
  ELSE StringOrNull[ParseURL("https://" \o rawUrl, NoBase)]

\* mutant: the prefix is added without parsing the result
ensureAbsoluteUrl_NoValidation(rawUrl) ==
  IF rawUrl = "" THEN Null ELSE Str("https://" \o rawUrl)

\* mutant: the prefix is added without trying the text as it is
ensureAbsoluteUrl_AlwaysPrefix(rawUrl) ==
  IF rawUrl = "" THEN Null ELSE StringOrNull[ParseURL("https://" \o rawUrl, NoBase)]

ensureAbsoluteUrl(rawUrl) ==
  IF rawUrl = "" THEN Null ELSE Fallback[ParseURL(rawUrl, NoBase), rawUrl]

\* mutant: the suffix is looked for at the end of the whole URL
HasImageSuffix_WholeUrl(url) ==
  \E k \in DOMAIN IMAGE_SUFFIXES :
     endsWith(toLowerCase(toString(url)), "." \o IMAGE_SUFFIXES[k])

HasImageSuffix(url) ==
  \E k \in DOMAIN IMAGE_SUFFIXES :
     endsWith(toLowerCase(pathname(url)), "." \o IMAGE_SUFFIXES[k])

\* Array.from(new Set(list)): first occurrences, in order
Unique[list \in Seq(STRING)] ==
  LET first == {i \in DOMAIN list : \A j \in 1..(i - 1) : list[j] # list[i]}
      F[i \in 0..Len(list)] ==
        IF i = 0 THEN <<>>
        ELSE IF i \in first THEN Append(F[i - 1], list[i]) ELSE F[i - 1]
  IN  F[Len(list)]

\* anchors.map(...) of line 29: each href resolved against base
Resolve[hrefs \in Seq(STRING), base \in URLRecord] ==
  [i \in DOMAIN hrefs |-> ParseURL(hrefs[i], base)]

\* .filter(Boolean).filter(suffix)
ImageUrlsOf[resolved \in Seq(URLRecord)] ==
  SelectSeq(SelectSeq(resolved, LAMBDA u : u.ok), HasImageSuffix)

\* .map((url) => url.toString())
Strings[urls \in Seq(URLRecord)] == [i \in DOMAIN urls |-> toString(urls[i])]

\* mutant: the result is not passed through a Set
extractImageLinks_NoSet(htmlText, baseUrl) ==
  Strings[ImageUrlsOf[Resolve[htmlText, ParseURL(baseUrl, NoBase)]]]

\* htmlText is given as the href values of the document's a[href] elements, in
\* document order (what DOMParser and querySelectorAll make of the text)
extractImageLinks(htmlText, baseUrl) ==
  Unique[Strings[ImageUrlsOf[Resolve[htmlText, ParseURL(baseUrl, NoBase)]]]]

(***************************************************************************)
(* The environment: what the user types and what the network answers       *)
(***************************************************************************)
MaxSubmits == 2

Inputs ==
  {"", "  ", "a b", " site.test/page ", "https://site.test/page", "HTTP://Site.Test",
   "localhost:3000"}

Keys == {"ArrowUp", "ArrowDown", "Escape"}

Statuses == {200, 404}

\* mutant: only server errors count as failures
Ok_Below500(status) == status < 500

\* Response.ok
Ok(status) == 200 <= status /\ status <= 299

\* fetch() answers only these schemes; any other URL makes it reject
FetchSchemes == {"http", "https"}

Pages ==
  { <<>>,
    <<"d.gif", "http://">>,
    <<"a.png", "/b.JPG", "https://other.test/c.jpeg?x=1", "d.gif">>,
    <<"a.png", "./a.png", "img/e.jpeg#top">> }

\* what a rejected promise carries: fetch and Response.text reject with a TypeError;
\* a replaced window.fetch may reject with a value that is no Error
Rejections ==
  { [isError |-> TRUE, message |-> "Failed to fetch"],
    [isError |-> FALSE, message |-> ""] }

\* the URLs fetch() can answer
Fetchable(url) == ParseURL(url, NoBase).scheme \in FetchSchemes

\* the texts given to ensureAbsoluteUrl when the two functions are checked on their own
RawUrls ==
  Inputs \cup
  {"site.test", "Site.Test/a/b/", "https://site.test/a/b/c.html?q=1#top", "//site.test",
   "/page", "ftp://files.test/x", "mailto:a@site.test", "site.test:8080/p", "http://",
   "https://", "#top", "http:site.test", "https://site.test/a/../b/./c"}

\* the documents given to extractImageLinks when the two functions are checked on
\* their own
Documents ==
  Pages \cup
  { <<"a.png", "b.jpg", "a.png", "c.gif", "b.jpg", "A.png", "./a.png">>,
    <<"http://", "notes.txt?f=.png", "doc.html#.jpg", "x.PNG?y=.gif", "https://a b/",
      "pic.JpEg#top", "img.png/", "png", ".jpeg">>,
    <<"x.png#a", "x.png", "../x.png", "x.png#a", "//cdn.test/x.png", "/x.png", "x.png">> }

(***************************************************************************)
(* The App component                                                       *)
(***************************************************************************)
VARIABLES
  urlInput,       \* useState('')
  imageUrls,      \* useState([])
  selectedIndex,  \* useState(0), 0-based as in the code
  loading,        \* useState(false)
  error,          \* useState('')
  calls,          \* the handleSubmit invocations suspended at an await
  requests,       \* the URLs fetch() was called with, in order
  bodyReads,      \* the number of response.text() calls
  last            \* the last event handled: [op, arg, prev]

vars == <<urlInput, imageUrls, selectedIndex, loading, error, calls, requests, bodyReads, last>>

InvalidUrlMessage == "Enter a valid URL (include protocol or a valid domain)."

NoLinksMessage == "No image links found on this page."

FallbackMessage == "Unable to fetch the provided URL."

StatusMessage(status) == "Request failed with status " \o ToString(status)

\* mutant: the catch block ignores the error's own message
CatchMessage_AlwaysFallback(fetchError) == FallbackMessage

\* the catch block's message
CatchMessage(fetchError) ==
  IF fetchError.isError THEN fetchError.message ELSE FallbackMessage

selectedImage ==
  IF Len(imageUrls) # 0 /\ (selectedIndex + 1) \in DOMAIN imageUrls
  THEN imageUrls[selectedIndex + 1] ELSE ""

\* mutant: no lower clamp
handlePrev_NoClamp(current) == current - 1

handlePrev(current) == IF current > 0 THEN current - 1 ELSE current

\* mutant: no upper clamp
handleNext_NoClamp(current, length) == current + 1

handleNext(current, length) == IF current < length - 1 THEN current + 1 ELSE current

\* mutant: no early return on an empty list, and the index moved without the clamps
handleKeyDown_Unguarded(key, current, length) ==
  IF key = "ArrowUp" THEN current - 1
  ELSE IF key = "ArrowDown" THEN current + 1
  ELSE current

\* the selected index handleKeyDown leaves
handleKeyDown(key, current, length) ==
  IF length = 0 THEN current
  ELSE IF key = "ArrowUp" THEN handlePrev(current)
  ELSE IF key = "ArrowDown" THEN handleNext(current, length)
  ELSE current

\* mutant: the controls are never disabled
SubmitEnabled_Always == TRUE

\* the form's controls are enabled
SubmitEnabled == ~loading

\* the URL input is enabled
InputEnabled == ~loading

\* the aria-label of the URL input
InputLabel == "Page URL"

\* the text of the submit button; the code's loading text ends with the character
\* U+2026, written here as three full stops
ButtonLabel == IF loading THEN "Loading..." ELSE "Apply"

RemoveAt(seq, i) == SubSeq(seq, 1, i - 1) \o SubSeq(seq, i + 1, Len(seq))

\* the event handled by a step, with the selected index, the number of fetch() calls
\* and the number of response.text() calls before it
Event(op, arg) ==
  [op |-> op, arg |-> arg, prev |-> selectedIndex, fetches |-> Len(requests),
   reads |-> bodyReads]

\* mutant: the submit handler keeps the previous list and selection
ResetSelection_Keep == UNCHANGED <<imageUrls, selectedIndex>>

\* setImageUrls([]); setSelectedIndex(0) of handleSubmit
ResetSelection == imageUrls' = <<>> /\ selectedIndex' = 0

\* mutant: no finally block
Finally_Missing == UNCHANGED loading

\* the finally block
Finally == loading' = FALSE

\* mutant: the empty result is not reported
ResultMessage_Never(links, current) == current

\* mutant: the "no image links" message is set whatever was extracted
ResultMessage_Always(links, current) == NoLinksMessage

\* the error left by the success path: set when no link was found
ResultMessage(links, current) == IF Len(links) = 0 THEN NoLinksMessage ELSE current

\* mutant: the component starts in the loading state
Init_Loading ==
  /\ urlInput = ""
  /\ imageUrls = <<>>
  /\ selectedIndex = 0
  /\ loading = TRUE
  /\ error = ""
  /\ calls = <<>>
  /\ requests = <<>>
  /\ bodyReads = 0
  /\ last = [op |-> "init", arg |-> "", prev |-> 0, fetches |-> 0, reads |-> 0]

Init ==
  /\ urlInput = ""
  /\ imageUrls = <<>>
  /\ selectedIndex = 0
  /\ loading = FALSE
  /\ error = ""
  /\ calls = <<>>
  /\ requests = <<>>
  /\ bodyReads = 0
  /\ last = [op |-> "init", arg |-> "", prev |-> 0, fetches |-> 0, reads |-> 0]

\* onChange of the URL input
ChangeInput(value) ==
  /\ ~loading
  /\ value # urlInput
  /\ urlInput' = value
  /\ last' = Event("change", value)
  /\ UNCHANGED <<imageUrls, selectedIndex, loading, error, calls, requests, bodyReads>>

\* handleSubmit, the input does not normalize
SubmitInvalid ==
  /\ SubmitEnabled
  /\ Falsy(ensureAbsoluteUrl(trim(urlInput)))
  /\ error' = InvalidUrlMessage
  /\ ResetSelection
  /\ last' = Event("submit", urlInput)
  /\ UNCHANGED <<urlInput, loading, calls, requests, bodyReads>>

\* mutant: the submit handler does not clear the error
SubmitValid_KeepError ==
  LET normalizedUrl == ensureAbsoluteUrl(trim(urlInput))
  IN  /\ SubmitEnabled
      /\ Len(requests) < MaxSubmits
      /\ ~Falsy(normalizedUrl)
      /\ loading' = TRUE
      /\ ResetSelection
      /\ requests' = Append(requests, normalizedUrl.val)
      /\ calls' = Append(calls, [normalizedUrl |-> normalizedUrl.val, pc |-> "fetch"])
      /\ last' = Event("submit", urlInput)
      /\ UNCHANGED <<urlInput, error, bodyReads>>

\* handleSubmit up to its first await
SubmitValid ==
  LET normalizedUrl == ensureAbsoluteUrl(trim(urlInput))
  IN  /\ SubmitEnabled
      /\ Len(requests) < MaxSubmits
      /\ ~Falsy(normalizedUrl)
      /\ loading' = TRUE
      /\ error' = ""
      /\ ResetSelection
      /\ requests' = Append(requests, normalizedUrl.val)
      /\ calls' = Append(calls, [normalizedUrl |-> normalizedUrl.val, pc |-> "fetch"])
      /\ last' = Event("submit", urlInput)
      /\ UNCHANGED <<urlInput, bodyReads>>

\* fetch resolves with an ok response: response.text() is called
FetchResolveOk(i, status) ==
  /\ calls[i].pc = "fetch"
  /\ Fetchable(calls[i].normalizedUrl)
  /\ Ok(status)
  /\ calls' = [calls EXCEPT ![i].pc = "text"]
  /\ bodyReads' = bodyReads + 1
  /\ last' = Event("fetchResolve", status)
  /\ UNCHANGED <<urlInput, imageUrls, selectedIndex, loading, error, requests>>

\* fetch resolves with a response that is not ok: throw, catch, finally
FetchResolveNotOk(i, status) ==
  /\ calls[i].pc = "fetch"
  /\ Fetchable(calls[i].normalizedUrl)
  /\ ~Ok(status)
  /\ error' = CatchMessage([isError |-> TRUE, message |-> StatusMessage(status)])
  /\ Finally
  /\ calls' = RemoveAt(calls, i)
  /\ last' = Event("fetchResolve", status)
  /\ UNCHANGED <<urlInput, imageUrls, selectedIndex, requests, bodyReads>>

\* mutant: a rejected fetch is retried
FetchReject_Retry(i, fetchError) ==
  /\ calls[i].pc = "fetch"
  /\ requests' = Append(requests, calls[i].normalizedUrl)
  /\ last' = Event("fetchReject", fetchError)
  /\ UNCHANGED <<urlInput, imageUrls, selectedIndex, loading, error, calls, bodyReads>>

\* fetch rejects: catch, finally
FetchReject(i, fetchError) ==
  /\ calls[i].pc = "fetch"
  /\ error' = CatchMessage(fetchError)
  /\ Finally
  /\ calls' = RemoveAt(calls, i)
  /\ last' = Event("fetchReject", fetchError)
  /\ UNCHANGED <<urlInput, imageUrls, selectedIndex, requests, bodyReads>>

\* response.text() resolves: extract, show, finally
TextResolve(i, htmlText) ==
  LET links == extractImageLinks(htmlText, calls[i].normalizedUrl)
  IN  /\ calls[i].pc = "text"
      /\ imageUrls' = links
      /\ error' = ResultMessage(links, error)
      /\ Finally
      /\ calls' = RemoveAt(calls, i)
      /\ last' = Event("textResolve", [url |-> calls[i].normalizedUrl, htmlText |-> htmlText])
      /\ UNCHANGED <<urlInput, selectedIndex, requests, bodyReads>>

\* response.text() rejects: catch, finally
TextReject(i, fetchError) ==
  /\ calls[i].pc = "text"
  /\ error' = CatchMessage(fetchError)
  /\ Finally
  /\ calls' = RemoveAt(calls, i)
  /\ last' = Event("textReject", fetchError)
  /\ UNCHANGED <<urlInput, imageUrls, selectedIndex, requests, bodyReads>>

\* mutant: the item's position is taken as 1-based
SelectItem_OneBased(index) ==
  /\ (index + 1) \in DOMAIN imageUrls
  /\ selectedIndex' = index + 1
  /\ last' = Event("select", index)
  /\ UNCHANGED <<urlInput, imageUrls, loading, error, calls, requests, bodyReads>>

\* click on the list item of index (0-based)
SelectItem(index) ==
  /\ (index + 1) \in DOMAIN imageUrls
  /\ selectedIndex' = index
  /\ last' = Event("select", index)
  /\ UNCHANGED <<urlInput, imageUrls, loading, error, calls, requests, bodyReads>>

\* click on the "Previous image" button
ClickPrev ==
  /\ selectedImage # ""
  /\ selectedIndex # 0
  /\ selectedIndex' = handlePrev(selectedIndex)
  /\ last' = Event("prev", "")
  /\ UNCHANGED <<urlInput, imageUrls, loading, error, calls, requests, bodyReads>>

\* click on the "Next image" button
ClickNext ==
  /\ selectedImage # ""
  /\ selectedIndex # Len(imageUrls) - 1
  /\ selectedIndex' = handleNext(selectedIndex, Len(imageUrls))
  /\ last' = Event("next", "")
  /\ UNCHANGED <<urlInput, imageUrls, loading, error, calls, requests, bodyReads>>

\* the window's keydown listener
KeyDown(key) ==
  /\ selectedIndex' = handleKeyDown(key, selectedIndex, Len(imageUrls))
  /\ last' = Event("key", key)
  /\ UNCHANGED <<urlInput, imageUrls, loading, error, calls, requests, bodyReads>>

\* handleSubmit
Submit == SubmitInvalid \/ SubmitValid

Settle ==
  \E i \in DOMAIN calls :
     \/ \E status \in Statuses : FetchResolveOk(i, status) \/ FetchResolveNotOk(i, status)
     \/ \E fetchError \in Rejections : FetchReject(i, fetchError) \/ TextReject(i, fetchError)
     \/ \E htmlText \in Pages : TextResolve(i, htmlText)

Next ==
  \/ \E value \in Inputs : ChangeInput(value)
  \/ SubmitInvalid
  \/ SubmitValid
  \/ \E i \in DOMAIN calls, status \in Statuses : FetchResolveOk(i, status)
  \/ \E i \in DOMAIN calls, status \in Statuses : FetchResolveNotOk(i, status)
  \/ \E i \in DOMAIN calls, fetchError \in Rejections : FetchReject(i, fetchError)
  \/ \E i \in DOMAIN calls, htmlText \in Pages : TextResolve(i, htmlText)
  \/ \E i \in DOMAIN calls, fetchError \in Rejections : TextReject(i, fetchError)
  \/ \E index \in 0..(Len(imageUrls) - 1) : SelectItem(index)
  \/ ClickPrev
  \/ ClickNext
  \/ \E key \in Keys : KeyDown(key)

Spec == Init /\ [][Next]_vars

\* every outstanding fetch or body read eventually resolves or rejects
FairSpec == Spec /\ WF_vars(Settle)

\* the App with any of RawUrls typed into the input, before the first submission
FunctionsInit ==
  /\ urlInput \in RawUrls
  /\ imageUrls = <<>>
  /\ selectedIndex = 0
  /\ loading = FALSE
  /\ error = ""
  /\ calls = <<>>
  /\ requests = <<>>
  /\ bodyReads = 0
  /\ last = [op |-> "init", arg |-> "", prev |-> 0, fetches |-> 0, reads |-> 0]

\* submissions of the text typed, answered by an ok response with any of Documents
FunctionsNext ==
  \/ SubmitInvalid
  \/ SubmitValid
  \/ \E i \in DOMAIN calls, status \in Statuses : FetchResolveOk(i, status)
  \/ \E i \in DOMAIN calls, htmlText \in Documents : TextResolve(i, htmlText)

\* ensureAbsoluteUrl applied to RawUrls and extractImageLinks applied to Documents
FunctionsSpec == FunctionsInit /\ [][FunctionsNext]_vars

(***************************************************************************)
(* Properties                                                              *)
(***************************************************************************)
\* the text cannot be normalized: empty once trimmed, or no URL even with "https://"
InputInvalid(value) ==
  \/ trim(value) = ""
  \/ /\ ~ParseURL(trim(value), NoBase).ok
     /\ ~ParseURL("https://" \o trim(value), NoBase).ok

\* C1: whenever the image list is non-empty, 0 <= selectedIndex < length of the list
C1_SelectionInRange ==
  Len(imageUrls) # 0 => 0 <= selectedIndex /\ selectedIndex < Len(imageUrls)

C1_Witness == last.op = "key" /\ Len(imageUrls) = 3 /\ selectedIndex = 2

\* C2: a submission leaves an empty list and selection 0; they stay so while the fetch
\* is outstanding and when it fails; a successful fetch shows the links extracted from
\* its own response, with selection 0
C2_SubmitDiscardsPrior ==
  /\ last.op \in {"submit", "fetchResolve", "fetchReject", "textReject"}
       => imageUrls = <<>> /\ selectedIndex = 0
  /\ loading => imageUrls = <<>> /\ selectedIndex = 0
  /\ last.op = "textResolve"
       => /\ selectedIndex = 0
          /\ imageUrls = extractImageLinks(last.arg.htmlText, last.arg.url)

\* a submission made while the third image of an earlier result was selected
C2_Witness == last.op = "submit" /\ last.prev = 2 /\ imageUrls = <<>> /\ selectedIndex = 0

\* C3: with a non-empty list, Up/Prev at 0 stays at 0 and otherwise decrements by 1;
\* Down/Next at the last index stays and otherwise increments by 1
C3_ClampedNavigation ==
  Len(imageUrls) # 0 =>
    /\ (last.op = "prev" \/ (last.op = "key" /\ last.arg = "ArrowUp"))
         => selectedIndex = IF last.prev = 0 THEN 0 ELSE last.prev - 1
    /\ (last.op = "next" \/ (last.op = "key" /\ last.arg = "ArrowDown"))
         => selectedIndex = IF last.prev = Len(imageUrls) - 1 THEN last.prev
                            ELSE last.prev + 1

\* ArrowDown pressed on the last of three images
C3_Witness ==
  /\ last.op = "key" /\ last.arg = "ArrowDown"
  /\ Len(imageUrls) = 3 /\ last.prev = 2 /\ selectedIndex = 2

\* C4: at most one handleSubmit is suspended at an await, exactly when loading is set,
\* and while loading no submit and no input change can happen
C4_OneFetchOutstanding ==
  /\ Len(calls) <= 1
  /\ loading <=> calls # <<>>
  /\ loading => ~ENABLED Submit /\ ~ENABLED (\E value \in Inputs : ChangeInput(value))

C4_Witness == loading /\ Len(calls) = 1 /\ calls[1].pc = "text" /\ Len(requests) = 2

\* C5: whenever loading is set it is eventually cleared, with no call left suspended
C5_EventuallyReady == loading ~> (~loading /\ calls = <<>> /\ SubmitEnabled)

\* ready again after the body read failed
C5_Witness == last.op = "textReject" /\ ~loading /\ calls = <<>>

\* C6: a submit of a text that cannot be normalized calls no fetch, shows the
\* validation message, empties the list, selects 0 and leaves loading false
C6_InvalidInput ==
  (last.op = "submit" /\ InputInvalid(urlInput)) =>
    /\ Len(requests) = last.fetches
    /\ calls = <<>>
    /\ ~loading
    /\ error = InvalidUrlMessage
    /\ imageUrls = <<>>
    /\ selectedIndex = 0

\* "a b" submitted while the third image of an earlier result was selected
C6_Witness ==
  /\ last.op = "submit" /\ urlInput = "a b" /\ last.prev = 2
  /\ error = InvalidUrlMessage

\* C7 as stated: after a rejected fetch the error is the fallback message
C7_Original ==
  last.op = "fetchReject" => error = FallbackMessage /\ imageUrls = <<>> /\ ~loading

\* C7: after a rejected fetch the error is the rejection's own message when the
\* rejection is an Error, and the fallback message when it is not; the list is empty
\* and loading is false
C7_TransportFailure ==
  last.op = "fetchReject" =>
    /\ error = IF last.arg.isError THEN last.arg.message ELSE FallbackMessage
    /\ imageUrls = <<>>
    /\ ~loading

C7_Witness == last.op = "fetchReject" /\ last.arg.isError /\ error = "Failed to fetch"

\* C8: after fetch resolved with a status outside 200..299 the body is not read, no
\* call is left suspended, the list is empty, the error names the status and loading
\* is false
C8_NotOkResponse ==
  (last.op = "fetchResolve" /\ last.arg \notin 200..299) =>
    /\ bodyReads = last.reads
    /\ calls = <<>>
    /\ imageUrls = <<>>
    /\ error = "Request failed with status " \o ToString(last.arg)
    /\ ~loading

C8_Witness ==
  last.op = "fetchResolve" /\ last.arg = 404 /\ error = "Request failed with status 404"

\* C9: after the body was read, an empty extraction leaves the "no image links"
\* message and an empty list; a non-empty one leaves no error and exactly its links
C9_ExtractionResult ==
  last.op = "textResolve" =>
    IF Len(extractImageLinks(last.arg.htmlText, last.arg.url)) = 0
    THEN error = "No image links found on this page." /\ imageUrls = <<>>
    ELSE error = "" /\ imageUrls = extractImageLinks(last.arg.htmlText, last.arg.url)

\* a page with anchors, none of them an image link
C9_Witness ==
  /\ last.op = "textResolve" /\ last.arg.htmlText = <<"d.gif", "http://">>
  /\ imageUrls = <<>> /\ error = NoLinksMessage

\* C10: a submit of a text that normalizes calls fetch once, with the normalized URL of
\* the text; no other step calls fetch
C10_OneFetchPerSubmit ==
  /\ (last.op = "submit" /\ ~InputInvalid(urlInput)) =>
       /\ Len(requests) = last.fetches + 1
       /\ requests[Len(requests)] = ensureAbsoluteUrl(trim(urlInput)).val
  /\ last.op # "submit" => Len(requests) = last.fetches

\* the second submission, of a text whose normalized form differs from it
C10_Witness ==
  /\ last.op = "submit" /\ urlInput = "HTTP://Site.Test"
  /\ Len(requests) = 2 /\ requests[2] = "http://site.test/"

\* the serialized anchors of htmlText that resolve against baseUrl and have an image
\* path, in document order, duplicates included
QualifyingAnchors(htmlText, baseUrl) ==
  Strings[ImageUrlsOf[Resolve[htmlText, ParseURL(baseUrl, NoBase)]]]

\* links has no duplicates, holds exactly the strings of q, and orders them by their
\* first occurrence in q
FirstOccurrences[links \in Seq(STRING), q \in Seq(STRING)] ==
  /\ \A i, j \in DOMAIN links : i # j => links[i] # links[j]
  /\ {links[i] : i \in DOMAIN links} = {q[a] : a \in DOMAIN q}
  /\ \A i, j \in DOMAIN links :
        i < j => \E a \in DOMAIN q : /\ q[a] = links[i]
                                    /\ \A b \in 1..a : q[b] # links[j]

\* C11: the list extracted from a document has no duplicate strings, and each URL
\* sits at the relative position of its first occurrence among the qualifying resolved
\* anchors in document order
C11_FirstOccurrenceOrder ==
  last.op = "textResolve" =>
    FirstOccurrences[imageUrls, QualifyingAnchors(last.arg.htmlText, last.arg.url)]

\* a document whose first and second image links occur again after other links
C11_Witness ==
  /\ last.op = "textResolve"
  /\ last.arg.htmlText = <<"a.png", "b.jpg", "a.png", "c.gif", "b.jpg", "A.png", "./a.png">>
  /\ imageUrls = <<"https://site.test/a.png", "https://site.test/b.jpg",
                   "https://site.test/A.png">>

\* the last characters of the path are .png, .jpg or .jpeg in any letter case
ImagePath[path \in STRING] ==
  \E suffix \in {".png", ".jpg", ".jpeg"} :
     /\ Len(path) >= Len(suffix)
     /\ LowerCase[Drop(path, Len(path) - Len(suffix))] = suffix

\* links holds the serialization of a resolved anchor exactly when the anchor resolved
\* and its path is an image path, and holds nothing else
KeptAnchors[links \in Seq(STRING), resolved \in Seq(URLRecord)] ==
  /\ \A i \in DOMAIN resolved :
        resolved[i].ok =>
          (ImagePath[Pathname[resolved[i]]]
             <=> \E k \in DOMAIN links : links[k] = Serialize[resolved[i]])
  /\ \A k \in DOMAIN links :
        \E i \in DOMAIN resolved : resolved[i].ok /\ links[k] = Serialize[resolved[i]]

\* C12: the list extracted from a document holds a resolved anchor exactly when the
\* anchor's path (not its query or fragment), lower-cased, ends with .png, .jpg or
\* .jpeg; an anchor that does not resolve is left out and raises no error
C12_SuffixFilter ==
  last.op = "textResolve" =>
    /\ KeptAnchors[imageUrls,
                   Resolve[last.arg.htmlText, ParseURL(last.arg.url, NoBase)]]
    /\ error \in {"", NoLinksMessage}
    /\ ~loading

\* a document with two anchors that do not resolve and two whose query or fragment,
\* not their path, ends with an image suffix
C12_Witness ==
  /\ last.op = "textResolve"
  /\ last.arg.htmlText =
       <<"http://", "notes.txt?f=.png", "doc.html#.jpg", "x.PNG?y=.gif", "https://a b/",
         "pic.JpEg#top", "img.png/", "png", ".jpeg">>
  /\ imageUrls = <<"https://site.test/x.PNG?y=.gif", "https://site.test/pic.JpEg#top",
                   "https://site.test/.jpeg">>
  /\ error = ""

\* result is what the two-step fallback gives for rawUrl: direct is rawUrl parsed as it
\* is, prefixed is "https://" and rawUrl parsed
TwoStep[rawUrl \in STRING, direct \in URLRecord, prefixed \in URLRecord, result \in [ok : BOOLEAN, val : STRING]] ==
  IF rawUrl = "" THEN result = Null
  ELSE IF direct.ok THEN result = Str(Serialize[direct]) /\ result # Null
  ELSE IF prefixed.ok THEN result = Str(Serialize[prefixed]) /\ result # Null
  ELSE result = Null

\* what a submission shows of the value ensureAbsoluteUrl returned: the URL fetch() was
\* called with, or Null when no fetch was started and the validation message is shown
Normalized ==
  IF Len(requests) > last.fetches THEN Str(requests[Len(requests)])
  ELSE IF error = InvalidUrlMessage THEN Null
  ELSE Str("")

\* C13: ensureAbsoluteUrl fails on the empty text; returns the canonical form of a text
\* that parses as an absolute URL, with no prefix added; otherwise returns the canonical
\* form of "https://" and the text when that parses; otherwise fails
C13_TwoStepFallback ==
  last.op = "submit" =>
    TwoStep[trim(last.arg), ParseURL(trim(last.arg), NoBase),
            ParseURL("https://" \o trim(last.arg), NoBase), Normalized]

\* a text that parses as it is, with the scheme "localhost": no prefix is added
C13_Witness ==
  /\ last.op = "submit" /\ last.arg = "localhost:3000"
  /\ requests = <<"localhost:3000">>

\* C14: in the initial state loading is false, the input labelled "Page URL" and the
\* button labelled "Apply" are enabled, the list is empty, the selected index is 0 and
\* the error is empty
C14_InitiallyReady ==
  last.op = "init" =>
    /\ ~loading
    /\ InputLabel = "Page URL" /\ InputEnabled
    /\ ButtonLabel = "Apply" /\ SubmitEnabled
    /\ ENABLED Submit
    /\ ENABLED (\E value \in Inputs : ChangeInput(value))
    /\ imageUrls = <<>>
    /\ selectedIndex = 0
    /\ error = ""

\* the state after construction, in which a text can be typed and submitted
C14_Witness ==
  /\ last.op = "init" /\ urlInput = "" /\ requests = <<>>
  /\ ButtonLabel = "Apply" /\ InputEnabled /\ ENABLED Submit

\* C15: ArrowUp or ArrowDown pressed while the list is empty, the loading period
\* included, leaves selectedIndex, the list, loading and error unchanged
C15_InactiveOnEmptyList ==
  [][(last'.op = "key" /\ last'.arg \in {"ArrowUp", "ArrowDown"} /\ imageUrls = <<>>)
       => UNCHANGED <<selectedIndex, imageUrls, loading, error>>]_vars

\* ArrowDown pressed while the fetch of a submission is outstanding
C15_Witness ==
  /\ last.op = "key" /\ last.arg = "ArrowDown"
  /\ loading /\ calls # <<>> /\ calls[1].pc = "fetch"
  /\ imageUrls = <<>> /\ selectedIndex = 0

\* C16: while loading is true the list is empty, the error is empty and the selected
\* index is 0
C16_NothingShownWhileLoading ==
  loading => imageUrls = <<>> /\ error = "" /\ selectedIndex = 0

\* the loading state entered by a submission made while the second image of an earlier
\* result was selected
C16_Witness ==
  /\ loading /\ last.op = "submit" /\ last.prev = 1
  /\ imageUrls = <<>> /\ error = "" /\ selectedIndex = 0

\* C17: whenever the error is not empty the list is empty
C17_NoErrorWithList == error # "" => imageUrls = <<>>

\* the validation message shown by a submission made while the second image of a
\* displayed list was selected
C17_Witness ==
  /\ last.op = "submit" /\ last.prev = 1 /\ ~loading
  /\ error = InvalidUrlMessage /\ imageUrls = <<>>

\* C18: a click on a list item, on Prev or on Next and a key press leave the list,
\* loading, the error and the input text unchanged and start no fetch; the click on the
\* item of index i leaves selectedIndex = i
C18_SelectionOnly ==
  [][last'.op \in {"select", "prev", "next", "key"} =>
       /\ UNCHANGED <<imageUrls, loading, error, urlInput, requests, calls, bodyReads>>
       /\ (last'.op = "select" => selectedIndex' = last'.arg)]_vars

\* the third item of a list clicked while the first image was selected
C18_Witness ==
  /\ last.op = "select" /\ last.arg = 2 /\ last.prev = 0
  /\ selectedIndex = 2 /\ Len(imageUrls) = 3
  /\ Len(requests) = last.fetches /\ ~loading /\ error = ""

====
